---- MODULE Spec2Model ----
(***************************************************************************)
(* Model of GitStory's MessageThreadFull component                         *)
(* (src/src/components/tambo/message-thread-full.tsx) as rendered by the   *)
(* Home page (src/unnamed/part_000): the localStorage-derived repository   *)
(* context, the two window event listeners, the delayed hidden-message     *)
(* submit and the submitWithRepoContext wrapper.                            *)
(*                                                                         *)
(* Spec          every operation of the page composed.  The claims are     *)
(*               checked under the parts of it they are about:             *)
(* ListenerSpec  mount, re-render, effect flush, unmount and the           *)
(*               start-new-thread event.                                   *)
(* ImportSpec    the life cycle and the import-code-message event with its *)
(*               timers; FairImportSpec adds the fairness of the browser's *)
(*               event loop.                                               *)
(* EventSpec     both events on the mounted component.                     *)
(* InputSpec     the user at the message input while import events arrive. *)
(* WrapperSpec   getRepoContext and submitWithRepoContext called as units  *)
(*               (nothing in the rendered tree calls the wrapper).         *)
(***************************************************************************)
EXTENDS Integers, Sequences, FiniteSets, TLC

VARIABLES
    hasWindow,        \* typeof window !== "undefined"
    storage,          \* localStorage as seen through getItem("gitstory-repo")
    value,            \* useTamboThreadInput().value, the input's text
    mounted,          \* MessageThreadFull is committed to the tree
    renders,          \* commits so far (mounts and re-renders)
    curStart,         \* identity of startNewThread in the latest render
    curInput,         \* identity of {setValue, submit} in the latest render
    effectsDue,       \* effects of the latest commit that have not run yet
    startListeners,   \* registered "gitstory-start-new-thread" handlers
    importListeners,  \* registered "gitstory-import-code-message" handlers
    startEvents,      \* log: one record per dispatched start-new-thread event
    handlers,         \* running/finished handleImportCodeMessage invocations
    importEvents,     \* log: one record per dispatched import-code-message event
    timers,           \* pending setTimeout callbacks, in registration order
    userSent,         \* log: submits made by the rendered MessageInput
    userPending,      \* a MessageInput submit is in flight in the SDK
    wrapper           \* one invocation of submitWithRepoContext

vars == <<hasWindow, storage, value, mounted, renders, curStart, curInput,
          effectsDue, startListeners, importListeners, startEvents, handlers,
          importEvents, timers, userSent, userPending, wrapper>>

componentVars == <<mounted, renders, curStart, curInput, effectsDue,
                   startListeners, importListeners>>
eventVars == <<startEvents, handlers, importEvents>>
userVars == <<userSent, userPending>>

(***************************************************************************)
(* Bounds of the model.                                                    *)
(***************************************************************************)
MaxRenders == 2
MaxStartEvents == 2
MaxImports == 2
MaxUserSubmits == 1

(***************************************************************************)
(* Program constants.                                                      *)
(***************************************************************************)
ImportReadyDelay == 200
ImportSubmitDelay == 50
WrapperSubmitDelay == 50

\* Granularity of model time: the shortest wait.  Events between two ticks
\* are ordered, and less than one tick apart.
TickMs == ImportSubmitDelay

(***************************************************************************)
(* string | null and string | undefined                                    *)
(***************************************************************************)
None == [some |-> FALSE, str |-> ""]
Some(s) == [some |-> TRUE, str |-> s]
\* JavaScript truthiness of a string | null | undefined
Truthy(o) == o.some /\ o.str # ""
\* `${x}` of a string | undefined
Template(o) == IF o.some THEN o.str ELSE "undefined"

(***************************************************************************)
(* The stored entries the model draws from, and JSON.parse on them.        *)
(***************************************************************************)
JsonNoBranch == "{\"owner\":\"octo\",\"repo\":\"demo\"}"
JsonEmptyBranch == "{\"owner\":\"octo\",\"repo\":\"demo\",\"branch\":\"\"}"
JsonBranch == "{\"owner\":\"octo\",\"repo\":\"demo\",\"branch\":\"main\"}"
JsonOther == "{\"owner\":\"ada\",\"repo\":\"lib\",\"branch\":\"dev\"}"
JsonNull == "null"
NotJson == "{owner"

StoredTexts == {"", NotJson, JsonNull, JsonNoBranch, JsonEmptyBranch,
                JsonBranch, JsonOther}

\* localStorage: getItem throws (storage denied), returns null, or a string
StorageStates ==
    {[throws |-> TRUE, item |-> None], [throws |-> FALSE, item |-> None]}
    \cup {[throws |-> FALSE, item |-> Some(s)] : s \in StoredTexts}

\* JSON.parse: a SyntaxError on text that is no JSON, else the parsed value
JSONParse(s) ==
    CASE s = JsonNull ->
           [threw |-> FALSE, val |-> [t |-> "null", o |-> <<>>]]
      [] s = JsonNoBranch ->
           [threw |-> FALSE,
            val |-> [t |-> "obj", o |-> [owner |-> "octo", repo |-> "demo"]]]
      [] s = JsonEmptyBranch ->
           [threw |-> FALSE,
            val |-> [t |-> "obj",
                     o |-> [owner |-> "octo", repo |-> "demo", branch |-> ""]]]
      [] s = JsonBranch ->
           [threw |-> FALSE,
            val |-> [t |-> "obj",
                     o |-> [owner |-> "octo", repo |-> "demo", branch |-> "main"]]]
      [] s = JsonOther ->
           [threw |-> FALSE,
            val |-> [t |-> "obj",
                     o |-> [owner |-> "ada", repo |-> "lib", branch |-> "dev"]]]
      [] OTHER ->
           [threw |-> TRUE, val |-> [t |-> "null", o |-> <<>>]]

\* Property read of a parsed object: undefined when the key is missing
Prop(v, k) == IF k \in DOMAIN v.o THEN Some(v.o[k]) ELSE None

\* variant: the branch test dropped
RepoUrl_AlwaysTree(owner, repo, branch) ==
    "https://github.com/" \o Template(owner) \o "/" \o Template(repo)
        \o "/tree/" \o Template(branch)

\* `https://github.com/${owner}/${repo}${branch ? `/tree/${branch}` : ''}`
RepoUrl(owner, repo, branch) ==
    "https://github.com/" \o Template(owner) \o "/" \o Template(repo)
        \o (IF Truthy(branch) THEN "/tree/" \o Template(branch) ELSE "")

\* `\n\n[Repository Context: ${url}]`
ContextString(url) == "\n\n[Repository Context: " \o url \o "]"

Returned(o) == [threw |-> FALSE, ret |-> o]
Thrown == [threw |-> TRUE, ret |-> None]

\* The body of getRepoContext's try block
RepoContextTry(st) ==
    IF st.throws THEN Thrown
    ELSE IF ~Truthy(st.item) THEN Returned(None)
    ELSE LET parsed == JSONParse(st.item.str) IN
         IF parsed.threw THEN Thrown
         ELSE IF parsed.val.t = "null" THEN Thrown   \* destructuring null
         ELSE Returned(Some(ContextString(
                  RepoUrl(Prop(parsed.val, "owner"), Prop(parsed.val, "repo"),
                          Prop(parsed.val, "branch")))))

getRepoContext(win, st) ==
    IF ~win THEN Returned(None)
    ELSE LET r == RepoContextTry(st) IN
         IF r.threw THEN Returned(None) ELSE r


(***************************************************************************)
(* The inputs the model draws from.                                        *)
(***************************************************************************)
UserTexts == {"", "hi"}
RepoUrls == {"https://github.com/octo/demo", "https://github.com/ada/lib"}
SubmitOptions == {[streamResponse |-> b, resourceNames |-> <<>>] : b \in BOOLEAN}
\* the stored entries the page is run with in Spec
PageStorage == {[throws |-> FALSE, item |-> None],
                [throws |-> FALSE, item |-> Some(JsonBranch)]}

(***************************************************************************)
(* Timers: window.setTimeout callbacks, kept in registration order.        *)
(***************************************************************************)
NewTimer(p, d) == [proc |-> p, delay |-> d, left |-> d]

\* A timer runs once its delay has passed, after every timer that was
\* started before it with an equal or smaller delay
CanFire(i) ==
    /\ i \in 1..Len(timers)
    /\ timers[i].left = 0
    /\ \A j \in 1..(i - 1) :
          ~(timers[j].left = 0 /\ timers[j].delay <= timers[i].delay)

TimerOf(p) == CHOOSE i \in 1..Len(timers) : timers[i].proc = p
HasTimer(p) == \E i \in 1..Len(timers) : timers[i].proc = p
Due(p) == HasTimer(p) /\ CanFire(TimerOf(p))

RemoveAt(seq, i) == SubSeq(seq, 1, i - 1) \o SubSeq(seq, i + 1, Len(seq))

(***************************************************************************)
(* submitWithRepoContext (never referenced by the rendered tree): modelled *)
(* as one invocation, wrapper.pc following its awaits.                     *)
(***************************************************************************)
WrapperIdle ==
    [pc |-> "idle", opts |-> [streamResponse |-> FALSE, resourceNames |-> <<>>],
     orig |-> "", ctx |-> None, setCalls |-> <<>>, submitCalls |-> <<>>,
     waited |-> 0]

\* submit(options) as the SDK sees it: the options, and the input's text
SubmitCall(opts, waited) == [opts |-> opts, text |-> value, waited |-> waited]

\* variant: the test of the input's text dropped
WrapperAppends_IgnoresValue(ctx, v) == Truthy(ctx)

\* `if (repoContext && value)`
WrapperAppends(ctx, v) == Truthy(ctx) /\ v # ""

\* lines 121-128 and 136: up to the first await
submitWithRepoContext(opts) ==
    /\ wrapper.pc = "idle"
    /\ LET r == getRepoContext(hasWindow, storage) IN
       IF r.threw
       THEN /\ wrapper' = [wrapper EXCEPT !.pc = "threw", !.opts = opts,
                                          !.orig = value]
            /\ UNCHANGED <<value, timers>>
       ELSE IF WrapperAppends(r.ret, value)
       THEN /\ value' = value \o r.ret.str
            /\ timers' = Append(timers, NewTimer("wrapper", WrapperSubmitDelay))
            /\ wrapper' = [wrapper EXCEPT !.pc = "wait", !.opts = opts,
                                          !.orig = value, !.ctx = r.ret,
                                          !.setCalls = <<value \o r.ret.str>>]
       ELSE /\ wrapper' = [wrapper EXCEPT !.pc = "submitting", !.opts = opts,
                                          !.orig = value, !.ctx = r.ret,
                                          !.submitCalls = <<SubmitCall(opts, 0)>>]
            /\ UNCHANGED <<value, timers>>
    /\ UNCHANGED <<hasWindow, storage, componentVars, eventVars, userVars>>

\* line 131: the 50 ms timer has fired, submit(options) is called
WrapperTimer ==
    /\ wrapper.pc = "wait"
    /\ Due("wrapper")
    /\ timers' = RemoveAt(timers, TimerOf("wrapper"))
    /\ wrapper' = [wrapper EXCEPT
                     !.pc = "submitting",
                     !.submitCalls = Append(@, SubmitCall(wrapper.opts,
                                                          wrapper.waited))]
    /\ UNCHANGED <<hasWindow, storage, value, componentVars, eventVars, userVars>>

\* the SDK's submit resolves: "The value is cleared after submit anyway"
WrapperSubmitResolves ==
    /\ wrapper.pc = "submitting"
    /\ value' = ""
    /\ wrapper' = [wrapper EXCEPT !.pc = "resolved"]
    /\ UNCHANGED <<hasWindow, storage, timers, componentVars, eventVars, userVars>>

\* the SDK's submit rejects; the wrapper's finally block is empty
WrapperSubmitRejects ==
    /\ wrapper.pc = "submitting"
    /\ wrapper' = [wrapper EXCEPT !.pc = "rejected"]
    /\ UNCHANGED <<hasWindow, storage, value, timers, componentVars, eventVars,
                   userVars>>


(***************************************************************************)
(* The component's life cycle.  A commit fixes the hook values of the      *)
(* render; useEffect callbacks run later, in one flush, and only for the   *)
(* effects whose dependencies changed.                                     *)
(***************************************************************************)
Max(S) == CHOOSE x \in S : \A y \in S : y <= x

\* the effect's cleanup: removeEventListener of the handler it registered
Cleanup(listeners) ==
    IF listeners = {} THEN {} ELSE listeners \ {Max(listeners)}

\* variant: the effect returns no cleanup
StartEffect_NoCleanup(listeners, version) == listeners \cup {version}

\* lines 84-93: cleanup of the previous run, then addEventListener
StartEffect(listeners, version) == Cleanup(listeners) \cup {version}

\* variant: the effect returns no cleanup
ImportEffect_NoCleanup(listeners, version) == listeners \cup {version}

\* lines 96-115: cleanup of the previous run, then addEventListener
ImportEffect(listeners, version) == Cleanup(listeners) \cup {version}

\* part_000 line 29: the page renders <MessageThreadFull/>
Mount ==
    /\ ~mounted
    /\ renders < MaxRenders
    /\ mounted' = TRUE
    /\ renders' = renders + 1
    /\ curStart' = renders + 1
    /\ curInput' = renders + 1
    /\ effectsDue' = {"start", "import"}
    /\ UNCHANGED <<hasWindow, storage, value, startListeners, importListeners,
                   eventVars, timers, userVars, wrapper>>

\* lines 64-65: a re-render in which the SDK hands out a new startNewThread
\* and/or a new setValue/submit (pending effects are flushed before a render)
Rerender ==
    /\ mounted
    /\ effectsDue = {}
    /\ renders < MaxRenders
    /\ \E changed \in (SUBSET {"start", "import"}) \ {{}} :
          /\ renders' = renders + 1
          /\ curStart' = IF "start" \in changed THEN renders + 1 ELSE curStart
          /\ curInput' = IF "import" \in changed THEN renders + 1 ELSE curInput
          /\ effectsDue' = changed
    /\ UNCHANGED <<hasWindow, storage, value, mounted, startListeners,
                   importListeners, eventVars, timers, userVars, wrapper>>

\* lines 84-115: the passive-effect flush of the latest commit
RunEffects ==
    /\ mounted
    /\ effectsDue # {}
    /\ startListeners' = IF "start" \in effectsDue
                         THEN StartEffect(startListeners, curStart)
                         ELSE startListeners
    /\ importListeners' = IF "import" \in effectsDue
                          THEN ImportEffect(importListeners, curInput)
                          ELSE importListeners
    /\ effectsDue' = {}
    /\ UNCHANGED <<hasWindow, storage, value, mounted, renders, curStart,
                   curInput, eventVars, timers, userVars, wrapper>>

\* lines 90-92 and 112-114: unmounting runs the cleanup of both effects
Unmount ==
    /\ mounted
    /\ mounted' = FALSE
    /\ effectsDue' = {}
    /\ startListeners' = Cleanup(startListeners)
    /\ importListeners' = Cleanup(importListeners)
    /\ UNCHANGED <<hasWindow, storage, value, renders, curStart, curInput,
                   eventVars, timers, userVars, wrapper>>

(***************************************************************************)
(* "gitstory-start-new-thread"                                             *)
(***************************************************************************)
\* variant: the handler does not call startNewThread
handleStartNewThread_NoCall(version) == <<>>

\* lines 85-87: the startNewThread calls one handler makes, by identity
handleStartNewThread(version) == <<version>>

RECURSIVE CallsOf(_)
\* dispatchEvent runs every registered handler, in registration order
CallsOf(listeners) ==
    IF listeners = {} THEN <<>>
    ELSE LET first == CHOOSE x \in listeners : \A y \in listeners : x <= y
         IN handleStartNewThread(first) \o CallsOf(listeners \ {first})

RECURSIVE CountCalls(_)
CountCalls(events) ==
    IF events = <<>> THEN 0
    ELSE Len(Head(events).calls) + CountCalls(Tail(events))

\* startNewThread calls made so far
StartCalls == CountCalls(startEvents)

\* start-new-thread events dispatched so far while a handler was registered
RECURSIVE CountHeard(_)
CountHeard(events) ==
    IF events = <<>> THEN 0
    ELSE (IF Head(events).listening THEN 1 ELSE 0) + CountHeard(Tail(events))

\* window.dispatchEvent(new CustomEvent("gitstory-start-new-thread"))
DispatchStartNewThread ==
    /\ Len(startEvents) < MaxStartEvents
    /\ startEvents' = Append(startEvents,
          [listening |-> startListeners # {},
           pending |-> "start" \in effectsDue,
           current |-> curStart,
           calls |-> CallsOf(startListeners)])
    /\ UNCHANGED <<hasWindow, storage, value, componentVars, handlers,
                   importEvents, timers, userVars, wrapper>>

(***************************************************************************)
(* "gitstory-import-code-message"                                          *)
(***************************************************************************)
HiddenMessage(repoUrl) ==
    "<!-- HIDDEN:import-code-initialization -->I want to explore this GitHub repository: "
        \o repoUrl

ImportOptions == [streamResponse |-> TRUE, resourceNames |-> <<>>]

\* lines 97-103: a handler invocation, up to its first await
NewHandler(ev, repoUrl) ==
    [ev |-> ev, url |-> repoUrl, pc |-> "wait200", elapsed |-> 0,
     setCalls |-> <<>>, setAt |-> -1, startsAtSet |-> -1,
     submitCalls |-> <<>>, startsAtSubmit |-> -1,
     heardBefore |-> CountHeard(startEvents)]

\* window.dispatchEvent(new CustomEvent("gitstory-import-code-message",
\* {detail: {repoUrl}})): every registered handler starts an invocation
DispatchImportCode(repoUrl) ==
    /\ Len(importEvents) < MaxImports
    /\ LET n == Cardinality(importListeners)
           ev == Len(importEvents) + 1
       IN /\ importEvents' = Append(importEvents,
                                    [url |-> repoUrl, listeners |-> n])
          /\ handlers' = handlers \o [i \in 1..n |-> NewHandler(ev, repoUrl)]
          /\ timers' = timers \o
                [i \in 1..n |-> NewTimer(Len(handlers) + i, ImportReadyDelay)]
    /\ UNCHANGED <<hasWindow, storage, value, componentVars, startEvents,
                   userVars, wrapper>>

\* lines 105-107: the 200 ms timer has fired; setValue, then the 50 ms wait
ImportTimerReady(h) ==
    /\ h \in 1..Len(handlers)
    /\ handlers[h].pc = "wait200"
    /\ Due(h)
    /\ value' = HiddenMessage(handlers[h].url)
    /\ handlers' = [handlers EXCEPT
                      ![h].pc = "wait50",
                      ![h].setCalls = Append(@, HiddenMessage(handlers[h].url)),
                      ![h].setAt = handlers[h].elapsed,
                      ![h].startsAtSet = StartCalls]
    /\ timers' = Append(RemoveAt(timers, TimerOf(h)),
                        NewTimer(h, ImportSubmitDelay))
    /\ UNCHANGED <<hasWindow, storage, componentVars, startEvents, importEvents,
                   userVars, wrapper>>

\* line 108: the 50 ms timer has fired; submit is called on the input as it is
ImportTimerSubmit(h) ==
    /\ h \in 1..Len(handlers)
    /\ handlers[h].pc = "wait50"
    /\ Due(h)
    /\ handlers' = [handlers EXCEPT
                      ![h].pc = "submitting",
                      ![h].submitCalls =
                          Append(@, SubmitCall(ImportOptions, handlers[h].elapsed)),
                      ![h].startsAtSubmit = StartCalls]
    /\ timers' = RemoveAt(timers, TimerOf(h))
    /\ UNCHANGED <<hasWindow, storage, value, componentVars, startEvents,
                   importEvents, userVars, wrapper>>

\* line 108: the awaited submit resolves, the SDK clears the input
ImportSubmitResolves(h) ==
    /\ h \in 1..Len(handlers)
    /\ handlers[h].pc = "submitting"
    /\ value' = ""
    /\ handlers' = [handlers EXCEPT ![h].pc = "done"]
    /\ UNCHANGED <<hasWindow, storage, componentVars, startEvents, importEvents,
                   timers, userVars, wrapper>>

\* line 108: the awaited submit rejects, the handler's promise rejects
ImportSubmitRejects(h) ==
    /\ h \in 1..Len(handlers)
    /\ handlers[h].pc = "submitting"
    /\ handlers' = [handlers EXCEPT ![h].pc = "failed"]
    /\ UNCHANGED <<hasWindow, storage, value, componentVars, startEvents,
                   importEvents, timers, userVars, wrapper>>

(***************************************************************************)
(* Time                                                                    *)
(***************************************************************************)
\* TickMs pass: no timer is due (a due timer runs before time moves on)
Tick ==
    /\ timers # <<>>
    /\ \A i \in 1..Len(timers) : timers[i].left > 0
    /\ timers' = [i \in 1..Len(timers) |->
                    [timers[i] EXCEPT !.left = IF @ > TickMs THEN @ - TickMs ELSE 0]]
    /\ handlers' = [h \in 1..Len(handlers) |->
                      IF handlers[h].pc \in {"wait200", "wait50"}
                      THEN [handlers[h] EXCEPT !.elapsed = @ + TickMs]
                      ELSE handlers[h]]
    /\ wrapper' = IF wrapper.pc = "wait"
                  THEN [wrapper EXCEPT !.waited = @ + TickMs]
                  ELSE wrapper
    /\ UNCHANGED <<hasWindow, storage, value, componentVars, startEvents,
                   importEvents, userVars>>

(***************************************************************************)
(* The message input rendered at lines 198-209                             *)
(***************************************************************************)
\* the user edits the textarea
TypeText(t) ==
    /\ mounted
    /\ t # value
    /\ value' = t
    /\ UNCHANGED <<hasWindow, storage, componentVars, eventVars, timers,
                   userVars, wrapper>>

\* what <MessageInput> hands to the SDK's submit: it is rendered without props
\* and submitWithRepoContext is referenced nowhere, so the input's own text
MessageInputText(text, ctx) == text

\* the user submits a non-empty message through <MessageInput>
MessageInputSubmit ==
    /\ mounted
    /\ value # ""
    /\ ~userPending
    /\ Len(userSent) < MaxUserSubmits
    /\ LET ctx == getRepoContext(hasWindow, storage).ret IN
       userSent' = Append(userSent,
                          [text |-> value, ctx |-> ctx,
                           handed |-> MessageInputText(value, ctx)])
    /\ userPending' = TRUE
    /\ UNCHANGED <<hasWindow, storage, value, componentVars, eventVars, timers,
                   wrapper>>

\* the SDK's submit resolves and clears the input
UserSubmitResolves ==
    /\ userPending
    /\ userPending' = FALSE
    /\ value' = ""
    /\ UNCHANGED <<hasWindow, storage, componentVars, eventVars, timers,
                   userSent, wrapper>>

\* the SDK's submit rejects, the input keeps its text
UserSubmitRejects ==
    /\ userPending
    /\ userPending' = FALSE
    /\ UNCHANGED <<hasWindow, storage, value, componentVars, eventVars, timers,
                   userSent, wrapper>>

(***************************************************************************)
(* Specifications                                                          *)
(***************************************************************************)
Init ==
    /\ hasWindow = TRUE
    /\ storage = [throws |-> FALSE, item |-> Some(JsonBranch)]
    /\ value = ""
    /\ mounted = FALSE
    /\ renders = 0
    /\ curStart = 0
    /\ curInput = 0
    /\ effectsDue = {}
    /\ startListeners = {}
    /\ importListeners = {}
    /\ startEvents = <<>>
    /\ handlers = <<>>
    /\ importEvents = <<>>
    /\ timers = <<>>
    /\ userSent = <<>>
    /\ userPending = FALSE
    /\ wrapper = WrapperIdle

Next ==
    \/ Mount
    \/ Rerender
    \/ RunEffects
    \/ Unmount
    \/ DispatchStartNewThread
    \/ \E u \in RepoUrls : DispatchImportCode(u)
    \/ \E h \in 1..Len(handlers) : ImportTimerReady(h)
    \/ \E h \in 1..Len(handlers) : ImportTimerSubmit(h)
    \/ \E h \in 1..Len(handlers) : ImportSubmitResolves(h)
    \/ \E h \in 1..Len(handlers) : ImportSubmitRejects(h)
    \/ Tick
    \/ \E t \in UserTexts : TypeText(t)
    \/ MessageInputSubmit
    \/ UserSubmitResolves
    \/ UserSubmitRejects

Spec == Init /\ [][Next]_vars

\* The life cycle and the start-new-thread event
ListenerNext ==
    \/ Mount
    \/ Rerender
    \/ RunEffects
    \/ Unmount
    \/ DispatchStartNewThread

ListenerSpec == Init /\ [][ListenerNext]_vars

\* The life cycle and the import-code-message event
ImportNext ==
    \/ Mount
    \/ Rerender
    \/ RunEffects
    \/ Unmount
    \/ \E u \in RepoUrls : DispatchImportCode(u)
    \/ \E h \in 1..Len(handlers) : ImportTimerReady(h)
    \/ \E h \in 1..Len(handlers) : ImportTimerSubmit(h)
    \/ \E h \in 1..Len(handlers) : ImportSubmitResolves(h)
    \/ \E h \in 1..Len(handlers) : ImportSubmitRejects(h)
    \/ Tick

ImportSpec == Init /\ [][ImportNext]_vars

\* The browser's event loop keeps running: time passes and due timers fire
FairImportSpec ==
    /\ ImportSpec
    /\ WF_vars(Tick)
    /\ WF_vars(\E h \in 1..Len(handlers) : ImportTimerReady(h))
    /\ WF_vars(\E h \in 1..Len(handlers) : ImportTimerSubmit(h))

\* The mounted component after its effects have run
Settled ==
    /\ mounted = TRUE
    /\ renders = 1
    /\ curStart = 1
    /\ curInput = 1
    /\ effectsDue = {}
    /\ startListeners = {1}
    /\ importListeners = {1}
    /\ startEvents = <<>>
    /\ handlers = <<>>
    /\ importEvents = <<>>
    /\ timers = <<>>
    /\ userSent = <<>>
    /\ userPending = FALSE
    /\ wrapper = WrapperIdle

\* Both events on the mounted component
EventInit ==
    /\ hasWindow = TRUE
    /\ storage = [throws |-> FALSE, item |-> Some(JsonBranch)]
    /\ value = ""
    /\ Settled

EventNext ==
    \/ DispatchStartNewThread
    \/ \E u \in RepoUrls : DispatchImportCode(u)
    \/ \E h \in 1..Len(handlers) : ImportTimerReady(h)
    \/ \E h \in 1..Len(handlers) : ImportTimerSubmit(h)
    \/ \E h \in 1..Len(handlers) : ImportSubmitResolves(h)
    \/ \E h \in 1..Len(handlers) : ImportSubmitRejects(h)
    \/ Tick

EventSpec == EventInit /\ [][EventNext]_vars

\* The user at the message input while import events arrive
InputInit ==
    /\ hasWindow = TRUE
    /\ storage \in PageStorage
    /\ value = ""
    /\ Settled

InputNext ==
    \/ \E u \in RepoUrls : DispatchImportCode(u)
    \/ \E h \in 1..Len(handlers) : ImportTimerReady(h)
    \/ \E h \in 1..Len(handlers) : ImportTimerSubmit(h)
    \/ \E h \in 1..Len(handlers) : ImportSubmitResolves(h)
    \/ \E h \in 1..Len(handlers) : ImportSubmitRejects(h)
    \/ Tick
    \/ \E t \in UserTexts : TypeText(t)
    \/ MessageInputSubmit
    \/ UserSubmitResolves
    \/ UserSubmitRejects

InputSpec == InputInit /\ [][InputNext]_vars

\* getRepoContext and submitWithRepoContext called on the mounted component,
\* for every stored entry
WrapperInit ==
    /\ hasWindow \in BOOLEAN
    /\ storage \in StorageStates
    /\ value \in UserTexts
    /\ Settled

WrapperNext ==
    \/ \E o \in SubmitOptions : submitWithRepoContext(o)
    \/ WrapperTimer
    \/ WrapperSubmitResolves
    \/ WrapperSubmitRejects
    \/ Tick
    \/ \E t \in UserTexts : TypeText(t)

WrapperSpec == WrapperInit /\ [][WrapperNext]_vars

(***************************************************************************)
(* Claims                                                                  *)
(***************************************************************************)
EndsWith(text, suffix) ==
    /\ Len(text) >= Len(suffix)
    /\ SubSeq(text, Len(text) - Len(suffix) + 1, Len(text)) = suffix

Called(h) == handlers[h].pc \in {"submitting", "done", "failed"}

\* C1: with a repo selection stored, the text the message input hands to the
\* SDK's submit is the user's text with the repository context appended.
C1_UserSubmitCarriesContext ==
    \A i \in 1..Len(userSent) :
        userSent[i].ctx.some =>
            userSent[i].handed = userSent[i].text \o userSent[i].ctx.str

C2_Expected(h) ==
    "<!-- HIDDEN:import-code-initialization -->I want to explore this GitHub repository: "
        \o importEvents[handlers[h].ev].url

C2_Order ==
    /\ \A e \in 1..Len(importEvents) :
          importEvents[e].listeners >= 1 =>
              Cardinality({h \in 1..Len(handlers) : handlers[h].ev = e}) = 1
    /\ \A h \in 1..Len(handlers) :
          /\ handlers[h].pc = "wait200" =>
                handlers[h].setCalls = <<>> /\ handlers[h].submitCalls = <<>>
          /\ handlers[h].pc # "wait200" =>
                /\ handlers[h].setCalls = <<C2_Expected(h)>>
                /\ handlers[h].setAt >= 200
          /\ handlers[h].pc = "wait50" => handlers[h].submitCalls = <<>>
          /\ Called(h) =>
                /\ Len(handlers[h].submitCalls) = 1
                /\ handlers[h].submitCalls[1].opts =
                       [streamResponse |-> TRUE, resourceNames |-> <<>>]
                /\ handlers[h].submitCalls[1].waited >= handlers[h].setAt + 50

\* C2: every import-code-message event received by the registered handler
\* leads to exactly one setValue(hidden message for its repoUrl), not before
\* 200 ms have passed, and then to exactly one submit({streamResponse: true,
\* resourceNames: {}}), not before a further 50 ms; both eventually happen.
C2_ImportHandlerRuns ==
    /\ []C2_Order
    /\ \A h \in 1..(MaxImports + 1) :
          (h <= Len(handlers)) ~> (h <= Len(handlers) /\ Called(h))

C2_Witness ==
    \E h \in 1..Len(handlers) :
        /\ handlers[h].pc = "done"
        /\ handlers[h].ev = 2
        /\ renders = 2

\* C3 as stated: every start-new-thread event dispatched while the handler is
\* registered causes exactly one call, to the startNewThread of the latest
\* render.
C3_CallsCurrent ==
    \A i \in 1..Len(startEvents) :
        startEvents[i].listening =>
            startEvents[i].calls = <<startEvents[i].current>>

\* C3 amended: at most one start-new-thread handler is registered at a time,
\* and every event dispatched while it is registered causes exactly one
\* startNewThread call; the call goes to the startNewThread of the latest
\* render once that render's effect has run, and to the one of the previous
\* effect run in between.
C3_OneCallPerEvent ==
    /\ Cardinality(startListeners) <= 1
    /\ (mounted /\ effectsDue = {}) => startListeners = {curStart}
    /\ \A i \in 1..Len(startEvents) :
          startEvents[i].listening =>
              /\ Len(startEvents[i].calls) = 1
              /\ ~startEvents[i].pending =>
                     startEvents[i].calls = <<startEvents[i].current>>
              /\ startEvents[i].pending =>
                     startEvents[i].calls[1] < startEvents[i].current

C3_Witness ==
    \E i \in 1..Len(startEvents) :
        /\ startEvents[i].listening
        /\ ~startEvents[i].pending
        /\ startEvents[i].current >= 2
        /\ startEvents[i].calls = <<startEvents[i].current>>

\* C4: getRepoContext returns null without a window, when the entry is
\* missing or empty, and when reading, parsing or destructuring it throws;
\* else the context string of the stored owner/repo, with /tree/<branch> only
\* for a non-empty branch.  It never throws.
C4_RepoContext ==
    wrapper.pc # "idle" =>
        /\ wrapper.pc # "threw"
        /\ ~hasWindow => wrapper.ctx = None
        /\ hasWindow =>
              /\ storage.throws => wrapper.ctx = None
              /\ ~storage.item.some => wrapper.ctx = None
              /\ (storage.item.some /\ storage.item.str \in {"", "{owner", "null"})
                    => wrapper.ctx = None
              /\ (storage.item.some /\ storage.item.str \in {JsonNoBranch, JsonEmptyBranch})
                    => wrapper.ctx =
                         Some("\n\n[Repository Context: https://github.com/octo/demo]")
              /\ (storage.item.some /\ storage.item.str = JsonBranch)
                    => wrapper.ctx =
                         Some("\n\n[Repository Context: https://github.com/octo/demo/tree/main]")
              /\ (storage.item.some /\ storage.item.str = JsonOther)
                    => wrapper.ctx =
                         Some("\n\n[Repository Context: https://github.com/ada/lib/tree/dev]")

C4_Witness ==
    /\ wrapper.pc = "submitting"
    /\ hasWindow
    /\ storage.item = Some(JsonNoBranch)
    /\ wrapper.ctx.some

\* C5: once a call of submitWithRepoContext that appended the repository
\* context has finished, resolved or rejected, the input no longer ends with
\* the appended context.
C5_ContextRemoved ==
    (wrapper.pc \in {"resolved", "rejected"} /\ wrapper.setCalls # <<>>) =>
        ~EndsWith(value, wrapper.ctx.str)

\* C6: with no repository context or an empty input the wrapper never calls
\* setValue, does not wait, and calls submit once with the caller's options;
\* otherwise it calls setValue once with value + context and, 50 ms later,
\* submit once with the caller's options.
C6_WrapperCalls ==
    wrapper.pc # "idle" =>
        IF ~wrapper.ctx.some \/ wrapper.orig = ""
        THEN /\ wrapper.setCalls = <<>>
             /\ wrapper.pc # "wait"
             /\ wrapper.submitCalls =
                    <<[opts |-> wrapper.opts, text |-> wrapper.orig, waited |-> 0]>>
        ELSE /\ wrapper.setCalls = <<wrapper.orig \o wrapper.ctx.str>>
             /\ wrapper.pc = "wait" => wrapper.submitCalls = <<>>
             /\ wrapper.pc # "wait" =>
                   /\ Len(wrapper.submitCalls) = 1
                   /\ wrapper.submitCalls[1].opts = wrapper.opts
                   /\ wrapper.submitCalls[1].waited >= 50

C6_Witness ==
    /\ wrapper.pc = "resolved"
    /\ wrapper.setCalls # <<>>
    /\ wrapper.opts.streamResponse

\* C7: when a start-new-thread event reaches its handler before an
\* import-code-message event is dispatched, startNewThread has been called
\* for it before the import handler's setValue and before its submit.
C7_NewThreadFirst ==
    \A h \in 1..Len(handlers) :
        /\ handlers[h].pc # "wait200" =>
              handlers[h].startsAtSet >= handlers[h].heardBefore
        /\ Called(h) => handlers[h].startsAtSubmit >= handlers[h].heardBefore

C7_Witness ==
    \E h \in 1..Len(handlers) :
        /\ handlers[h].heardBefore >= 1
        /\ Called(h)

\* C8: the input's text at each import handler's submit call is that
\* handler's own hidden message.
C8_OwnMessageSubmitted ==
    \A h \in 1..Len(handlers) :
        Called(h) =>
            handlers[h].submitCalls[1].text =
                "<!-- HIDDEN:import-code-initialization -->I want to explore this GitHub repository: "
                    \o handlers[h].url

====
